---- MODULE Spec2Model ----
(***************************************************************************)
(* Model of the microblog backend (src/main.py, src/models.py,             *)
(* src/services.py, src/core/database.py).                                 *)
(*                                                                         *)
(* The store is the PostgreSQL database behind the SQLAlchemy models.      *)
(* Every request runs its handler on its own AsyncSession (get_db); the    *)
(* handler is suspended at each awaited statement, so other requests run   *)
(* between two statements of one handler.  PostgreSQL's default isolation  *)
(* (READ COMMITTED, core/database.py sets no other) lets every statement   *)
(* read what is committed at that moment.  A write becomes visible at the  *)
(* commit that follows it; the statements a flush writes and their commit  *)
(* are one step of the model (row locks serialise them in the database).   *)
(*                                                                         *)
(* The schema is the one models.py declares: primary keys, the foreign     *)
(* keys of likes, follows, media and tweet_media, and no unique constraint *)
(* other than User.api_key.  Relationships carry no cascade option.        *)
(* The mapper configuration is read as it is meant: User maps the users    *)
(* table (models.py 31 spells the attribute __table__name) and the two     *)
(* relationships of Follow pair with User.following and User.followers.    *)
(***************************************************************************)
EXTENDS Integers, Sequences, FiniteSets, Bags, TLC

\* ---------------------------------------------------------------- bounds

\* Concurrent requests in flight.
NumReqs == 2
\* Tweets ever created (ids 1..MaxTweets).
MaxTweets == 2
\* Like rows ever inserted.
MaxLikes == 2
\* Follow rows ever inserted.
MaxFollows == 3
\* Users who send requests: those with id 1..MaxActor.
MaxActor == 2
\* Media rows ever inserted.
MaxMedia == 1
\* Length of the tweet_media_ids list of a request.
MaxIdsLen == 2
\* Largest value of the server clock.
MaxClock == 1

\* ------------------------------------------------------- program constants

\* SQL NULL in an integer column (ids start at 1).
NULL == 0

\* The users the lifespan hook seeds: test, Bob, Alex.
SeedUsers ==
    { [id |-> 1, name |-> "test", api_key |-> "test"],
      [id |-> 2, name |-> "Bob",  api_key |-> "Bob123"],
      [id |-> 3, name |-> "Alex", api_key |-> "Alex123"] }

\* ------------------------------------------------------------------ state

VARIABLES
    users,        \* rows of table users
    tweets,       \* rows of table tweets: [id, user_id, created_at, made_at]
    likes,        \* rows of table likes: [id, user_id, tweet_id]
    follows,      \* rows of table follows: [id, follower_id, following_id]
    media,        \* rows of table media: [id, file_path, user]
    tweet_media,  \* bag of rows of table tweet_media: [tweet_id, media_id]
    next_id,      \* the primary key sequences of the four tables
    clock,        \* the server clock
    boot_time,    \* the clock when models.py was imported by the running process
    req,          \* the requests in flight, one per slot, each with its api-key header
    resp,         \* the response sent last, with its request, until the next request
    last_like,    \* history: last successful like/unlike per (user, tweet)
    last_follow   \* history: last successful follow/unfollow per (actor, target)

db == <<users, tweets, likes, follows, media, tweet_media, next_id>>
vars == <<users, tweets, likes, follows, media, tweet_media, next_id,
          clock, boot_time, req, resp, last_like, last_follow>>

Reqs == 1..NumReqs
UserIds == {u.id : u \in SeedUsers}
\* A user id that no row has, next to the real ones.
AbsentUserId == Cardinality(SeedUsers) + 1
\* The users who send requests, and the user ids requests name.
ActorIds == {u \in UserIds : u <= MaxActor}
TargetIds == ActorIds \cup {AbsentUserId}
TweetIds == 1..MaxTweets
MediaIds == 1..MaxMedia
\* The api-key headers requests carry: the keys of the users who send requests,
\* a key no user has, and a key that differs from a user's in case only.
ApiKeys == {u.api_key : u \in {x \in SeedUsers : x.id \in ActorIds}} \cup {"nokey", "TEST"}

Results == {"none", "ok", "NotFound", "Forbidden", "Duplicate",
            "InvalidAction", "Unauthorized", "InternalError"}

TweetOps == {"create_tweet", "upload_media", "get_tweets", "delete_tweet",
             "like_tweet", "delete_like_tweet"}
FollowOps == {"follow_user", "unfollow_user", "get_user_profile"}

\* The first statement of each handler.
FirstStep(op) ==
    CASE op = "create_tweet"      -> "ct_insert"
      [] op = "upload_media"      -> "um_insert"
      [] op = "get_tweets"        -> "gt_query"
      [] op = "delete_tweet"      -> "dt_select"
      [] op = "like_tweet"        -> "lt_select_tweet"
      [] op = "delete_like_tweet" -> "dl_select"
      [] op = "follow_user"       -> "fu_select_user"
      [] op = "unfollow_user"     -> "uf_select"
      [] op = "get_user_profile"  -> "gp_query"

\* Sequences over S of length at most n.
SeqsUpTo(S, n) == UNION {[1..k -> S] : k \in 0..n}

Range(s) == {s[i] : i \in DOMAIN s}

\* The tweet_media_ids lists of the requests.
IdLists == SeqsUpTo(MediaIds, MaxIdsLen)

NoSnap == [likes |-> {}, media |-> {}, order |-> <<>>, followers |-> EmptyBag]
NoOut == [id |-> NULL, feed |-> <<>>, followers |-> EmptyBag, following |-> EmptyBag]

NoResp == [op |-> "none", key |-> "", user |-> NULL, arg |-> NULL, media_ids |-> <<>>,
           result |-> "none", out |-> NoOut]

IdleReq ==
    [op |-> "none", pc |-> "done", key |-> "", user |-> NULL, arg |-> NULL,
     media_ids |-> <<>>, snap |-> NoSnap, prev |-> "none"]

\* ------------------------------------------------------------ row queries

TweetRows(t) == {x \in tweets : x.id = t}
\* select(Like).where(Like.user_id == u).where(Like.tweet_id == t)
LikeRows(u, t) == {l \in likes : l.user_id = u /\ l.tweet_id = t}
\* select(Follow).where(follower_id == a).where(following_id == b)
FollowRows(a, b) == {f \in follows : f.follower_id = a /\ f.following_id = b}
\* Tweet.likes: the Like rows whose tweet_id is t
LikesOf(t) == {l \in likes : l.tweet_id = t}
\* Tweet.media: the media ids tweet_media links to t
MediaOf(t) == {m \in MediaIds : BagIn([tweet_id |-> t, media_id |-> m], tweet_media)}

\* Mutant of get_current_user: the WHERE clause of services.py 10 is left out.
get_current_userAnyKey(key) == users

\* src/services.py get_current_user: exact match of the api-key header.
get_current_user(key) == {u \in users : u.api_key = key}

\* ----------------------------------------------------------------- Init

Init ==
    /\ users = SeedUsers
    /\ tweets = {}
    /\ likes = {}
    /\ follows = {}
    /\ media = {}
    /\ tweet_media = EmptyBag
    /\ next_id = [tweets |-> 1, likes |-> 1, follows |-> 1, media |-> 1]
    /\ clock = 0
    /\ boot_time = 0
    /\ req = [r \in Reqs |-> IdleReq]
    /\ resp = NoResp
    /\ last_like = [k \in ActorIds \X TweetIds |-> "none"]
    /\ last_follow = [k \in ActorIds \X TargetIds |-> "none"]

\* ------------------------------------------------------------- requests

\* The request in slot r ends with `result` and payload `out`.
Finished(r, result, out) ==
    [op |-> req[r].op, pc |-> "done", key |-> req[r].key, user |-> req[r].user,
     arg |-> req[r].arg, media_ids |-> req[r].media_ids, result |-> result,
     out |-> out]

\* One statement of the request in slot r: q is the request after it, base the
\* other requests.  A request that ended is answered and frees its slot.
Step(base, r, q) ==
    IF q.pc = "done"
        THEN /\ req' = [base EXCEPT ![r] = IdleReq]
             /\ resp' = [op |-> q.op, key |-> q.key, user |-> q.user, arg |-> q.arg,
                         media_ids |-> q.media_ids,
                         result |-> q.result, out |-> q.out]
    ELSE /\ req' = [base EXCEPT ![r] = q]
         /\ resp' = IF req[r].pc = "done" THEN NoResp ELSE resp

\* The history a request starts from: the last successful like/unlike (or
\* follow/unfollow) of the same pair.
PrevOf(op, u, a) ==
    IF op \in {"like_tweet", "delete_like_tweet"} /\ a \in TweetIds
        THEN last_like[<<u, a>>]
    ELSE IF op \in {"follow_user", "unfollow_user"}
        THEN last_follow[<<u, a>>]
    ELSE "none"

\* The model accepts a request that inserts a row only while the table's
\* bound leaves room for it and for the inserts already in flight.
InFlight(op) == Cardinality({q \in Reqs : req[q].op = op /\ req[q].pc # "done"})

Room(op) ==
    CASE op = "create_tweet" -> next_id.tweets + InFlight(op) <= MaxTweets
      [] op = "upload_media" -> next_id.media + InFlight(op) <= MaxMedia
      [] op = "like_tweet"   -> next_id.likes + InFlight(op) <= MaxLikes
      [] op = "follow_user"  -> next_id.follows + InFlight(op) <= MaxFollows
      [] OTHER -> TRUE

\* A request arrives in a free slot: Depends(get_current_user) resolves the
\* api-key header (401 when no user has it), then the handler starts.
\* get_user_profile is not behind get_current_user: its api key is ignored.
\* ops are the operations the clients send and lists the tweet_media_ids lists
\* they send with create_tweet.
Receive(r, ops, lists) ==
    /\ req[r].pc = "done"
    /\ \E op \in {o \in ops : Room(o)}, key \in ApiKeys :
         \E arg \in (IF op \in {"delete_tweet", "like_tweet", "delete_like_tweet"}
                         THEN TweetIds
                     ELSE IF op \in FollowOps THEN TargetIds
                     ELSE {NULL}),
            ids \in (IF op = "create_tweet" THEN lists ELSE {<<>>}) :
           LET found == get_current_user(key) IN
           IF op = "get_user_profile"
             THEN /\ key = "nokey"
                  /\ Step(req, r, [IdleReq EXCEPT !.op = op, !.pc = FirstStep(op),
                                                   !.key = key, !.arg = arg])
           ELSE IF found = {}
             THEN Step(req, r,
                       [op |-> op, pc |-> "done", key |-> key, user |-> NULL,
                        arg |-> arg, media_ids |-> ids, result |-> "Unauthorized",
                        out |-> NoOut])
           ELSE LET u == (CHOOSE x \in found : TRUE).id IN
                Step(req, r,
                     [IdleReq EXCEPT !.op = op, !.pc = FirstStep(op), !.key = key,
                                     !.user = u, !.arg = arg, !.media_ids = ids,
                                     !.prev = PrevOf(op, u, arg)])
    /\ UNCHANGED <<db, clock, boot_time, last_like, last_follow>>

\* History: a request of (user u, target a) that came right after the opposite
\* operation succeeded no longer does so once another request's `kind`
\* succeeds in between.
DisarmPair(r, ops, u, a, kind) ==
    [q \in Reqs |->
        IF /\ q # r /\ req[q].op \in ops /\ req[q].user = u /\ req[q].arg = a
           /\ req[q].prev # kind
            THEN [req[q] EXCEPT !.prev = "none"]
        ELSE req[q]]

\* The same for every request about tweet t, when t is deleted.
DisarmTweet(r, t) ==
    [q \in Reqs |->
        IF q # r /\ req[q].op \in {"like_tweet", "delete_like_tweet"} /\ req[q].arg = t
            THEN [req[q] EXCEPT !.prev = "none"]
        ELSE req[q]]

\* The bag of the values f[x] over the rows x in the domain of f: a list whose
\* order the query leaves open.
BagOf(f) ==
    [e \in {f[x] : x \in DOMAIN f} |-> Cardinality({x \in DOMAIN f : f[x] = e})]

\* ------------------------------------------------------------ like_tweet

\* main.py 183-191: select the tweet; 404 NotFound when there is none.
LikeSelectTweet(r) ==
    /\ req[r].pc = "lt_select_tweet"
    /\ Step(req, r,
                 IF TweetRows(req[r].arg) = {}
                     THEN Finished(r, "NotFound", NoOut)
                 ELSE [req[r] EXCEPT !.pc = "lt_select_like"])
    /\ UNCHANGED <<db, clock, boot_time, last_like, last_follow>>

\* main.py 193-203: select the user's like of the tweet; scalar_one_or_none
\* raises MultipleResultsFound on two rows, 400 Duplicate on one.
LikeSelectLike(r) ==
    /\ req[r].pc = "lt_select_like"
    /\ LET n == Cardinality(LikeRows(req[r].user, req[r].arg)) IN
       Step(req, r,
                 IF n > 1 THEN Finished(r, "InternalError", NoOut)
                 ELSE IF n = 1 THEN Finished(r, "Duplicate", NoOut)
                 ELSE [req[r] EXCEPT !.pc = "lt_commit"])
    /\ UNCHANGED <<db, clock, boot_time, last_like, last_follow>>

\* main.py 205-209: insert the Like and commit.  likes.tweet_id is a foreign
\* key: the insert fails (IntegrityError) when the tweet is gone by now.  The
\* primary key sequence has advanced either way.
LikeCommit(r) ==
    /\ req[r].pc = "lt_commit"
    /\ next_id' = [next_id EXCEPT !.likes = @ + 1]
    /\ IF TweetRows(req[r].arg) = {}
         THEN /\ Step(req, r, Finished(r, "InternalError", NoOut))
              /\ UNCHANGED <<likes, last_like>>
       ELSE /\ likes' = likes \cup {[id |-> next_id.likes, user_id |-> req[r].user,
                                     tweet_id |-> req[r].arg]}
            /\ last_like' = [last_like EXCEPT ![<<req[r].user, req[r].arg>>] = "like"]
            /\ Step(DisarmPair(r, {"like_tweet", "delete_like_tweet"},
                                req[r].user, req[r].arg, "like"),
                    r, Finished(r, "ok", NoOut))
    /\ UNCHANGED <<users, tweets, follows, media, tweet_media, clock, boot_time,
                   last_follow>>

\* ----------------------------------------------------- delete_like_tweet

\* main.py 218-230: select the user's like of the tweet; 404 NotFound when
\* there is none, MultipleResultsFound on two rows.
DeleteLikeSelect(r) ==
    /\ req[r].pc = "dl_select"
    /\ LET rows == LikeRows(req[r].user, req[r].arg) IN
       Step(req, r,
                 IF Cardinality(rows) > 1 THEN Finished(r, "InternalError", NoOut)
                 ELSE IF rows = {} THEN Finished(r, "NotFound", NoOut)
                 ELSE [req[r] EXCEPT !.pc = "dl_commit",
                                     !.snap.likes = {l.id : l \in rows}])
    /\ UNCHANGED <<db, clock, boot_time, last_like, last_follow>>

\* Mutant of DeleteLikeCommit: the DELETE goes by user_id instead of by the
\* primary key of the selected Like (main.py 232).
DeleteLikeCommitByUser(r) ==
    /\ req[r].pc = "dl_commit"
    /\ likes' = {l \in likes : l.user_id # req[r].user}
    /\ last_like' = IF TweetRows(req[r].arg) = {} THEN last_like
                    ELSE [last_like EXCEPT ![<<req[r].user, req[r].arg>>] = "unlike"]
    /\ Step(DisarmPair(r, {"like_tweet", "delete_like_tweet"},
                        req[r].user, req[r].arg, "unlike"),
            r, Finished(r, "ok", NoOut))
    /\ UNCHANGED <<users, tweets, follows, media, tweet_media, next_id, clock,
                   boot_time, last_follow>>

\* main.py 232-235: DELETE the like by primary key and commit.  A row that is
\* gone by now matches nothing, which the ORM only warns about.  (History is
\* kept for existing tweets only.)
DeleteLikeCommit(r) ==
    /\ req[r].pc = "dl_commit"
    /\ likes' = {l \in likes : l.id \notin req[r].snap.likes}
    /\ last_like' = IF TweetRows(req[r].arg) = {} THEN last_like
                    ELSE [last_like EXCEPT ![<<req[r].user, req[r].arg>>] = "unlike"]
    /\ Step(DisarmPair(r, {"like_tweet", "delete_like_tweet"},
                        req[r].user, req[r].arg, "unlike"),
            r, Finished(r, "ok", NoOut))
    /\ UNCHANGED <<users, tweets, follows, media, tweet_media, next_id, clock,
                   boot_time, last_follow>>

\* ---------------------------------------------------------- create_tweet

\* main.py 70-73: insert the Tweet and commit.  created_at is left to the
\* column default of models.py 62, datetime.now() evaluated once, when the
\* class body ran: every tweet of this process gets boot_time.  made_at is
\* history: the clock at the insert.
CreateTweetInsert(r) ==
    /\ req[r].pc = "ct_insert"
    /\ LET id == next_id.tweets IN
       /\ tweets' = tweets \cup {[id |-> id, user_id |-> req[r].user,
                                  created_at |-> boot_time, made_at |-> clock]}
       /\ next_id' = [next_id EXCEPT !.tweets = @ + 1]
       /\ Step(req, r,
                    IF req[r].media_ids = <<>>
                        THEN Finished(r, "ok", [NoOut EXCEPT !.id = id])
                    ELSE [req[r] EXCEPT !.pc = "ct_select_media", !.arg = id])
    /\ UNCHANGED <<users, likes, follows, media, tweet_media, clock, boot_time,
                   last_like, last_follow>>

\* Mutant of CreateTweetSelectMedia: the owner filter of main.py 79 is left out.
CreateTweetSelectMediaAnyOwner(r) ==
    /\ req[r].pc = "ct_select_media"
    /\ req' = [req EXCEPT ![r].pc = "ct_attach",
                          ![r].snap.media =
                              {m.id : m \in {x \in media :
                                   x.id \in Range(req[r].media_ids)}}]
    /\ UNCHANGED <<db, clock, boot_time, resp, last_like, last_follow>>

\* main.py 76-81: select the Media rows whose id is in tweet_media_ids and
\* whose user is the actor.
CreateTweetSelectMedia(r) ==
    /\ req[r].pc = "ct_select_media"
    /\ req' = [req EXCEPT ![r].pc = "ct_attach",
                          ![r].snap.media =
                              {m.id : m \in {x \in media :
                                   /\ x.id \in Range(req[r].media_ids)
                                   /\ x.user = req[r].user}}]
    /\ UNCHANGED <<db, clock, boot_time, resp, last_like, last_follow>>

\* Mutant of CreateTweetAttach: one tweet_media row per element of
\* tweet_media_ids that was selected, instead of one per selected Media row
\* (main.py 82).
CreateTweetAttachPerId(r) ==
    /\ req[r].pc = "ct_attach"
    /\ LET ids == req[r].media_ids
           sel == {i \in DOMAIN ids : ids[i] \in req[r].snap.media}
           rows == BagOf([i \in sel |-> [tweet_id |-> req[r].arg, media_id |-> ids[i]]])
       IN
       IF sel # {} /\ TweetRows(req[r].arg) = {}
         THEN /\ Step(req, r, Finished(r, "InternalError", NoOut))
              /\ UNCHANGED tweet_media
       ELSE /\ tweet_media' = tweet_media (+) rows
            /\ Step(req, r, Finished(r, "ok", [NoOut EXCEPT !.id = req[r].arg]))
    /\ UNCHANGED <<users, tweets, likes, follows, media, next_id, clock, boot_time,
                   last_like, last_follow>>

\* main.py 82-92: insert one tweet_media row per selected Media and commit.
\* tweet_media.tweet_id is a foreign key: the insert fails when the tweet was
\* deleted meanwhile.
CreateTweetAttach(r) ==
    /\ req[r].pc = "ct_attach"
    /\ LET rows == {[tweet_id |-> req[r].arg, media_id |-> m] : m \in req[r].snap.media} IN
       IF rows # {} /\ TweetRows(req[r].arg) = {}
         THEN /\ Step(req, r, Finished(r, "InternalError", NoOut))
              /\ UNCHANGED tweet_media
       ELSE /\ tweet_media' = tweet_media (+) SetToBag(rows)
            /\ Step(req, r, Finished(r, "ok", [NoOut EXCEPT !.id = req[r].arg]))
    /\ UNCHANGED <<users, tweets, likes, follows, media, next_id, clock, boot_time,
                   last_like, last_follow>>

\* ---------------------------------------------------------- upload_media

\* main.py 101-112: store the file under a fresh name, insert the Media row
\* owned by the actor, commit.
UploadMedia(r) ==
    /\ req[r].pc = "um_insert"
    /\ LET id == next_id.media IN
       /\ media' = media \cup {[id |-> id, file_path |-> <<"uploads", id>>,
                                user |-> req[r].user]}
       /\ next_id' = [next_id EXCEPT !.media = @ + 1]
       /\ Step(req, r, Finished(r, "ok", [NoOut EXCEPT !.id = id]))
    /\ UNCHANGED <<users, tweets, likes, follows, tweet_media, clock, boot_time,
                   last_like, last_follow>>

\* ---------------------------------------------------------- delete_tweet

\* Mutant of DeleteTweetSelect: the ownership check of main.py 164 is left out.
DeleteTweetSelectAnyUser(r) ==
    /\ req[r].pc = "dt_select"
    /\ Step(req, r,
            IF TweetRows(req[r].arg) = {} THEN Finished(r, "NotFound", NoOut)
            ELSE [req[r] EXCEPT !.pc = "dt_flush_load"])
    /\ UNCHANGED <<db, clock, boot_time, last_like, last_follow>>

\* Mutant of DeleteTweetSelect: the tweet is deleted before the ownership check
\* of main.py 164.
DeleteTweetSelectDeleteFirst(r) ==
    /\ req[r].pc = "dt_select"
    /\ LET rows == TweetRows(req[r].arg)
           foreign == rows # {} /\ (CHOOSE t \in rows : TRUE).user_id # req[r].user
       IN
       /\ tweets' = IF foreign /\ LikesOf(req[r].arg) = {} /\ MediaOf(req[r].arg) = {}
                        THEN tweets \ rows ELSE tweets
       /\ Step(req, r,
               IF rows = {} THEN Finished(r, "NotFound", NoOut)
               ELSE IF foreign THEN Finished(r, "Forbidden", NoOut)
               ELSE [req[r] EXCEPT !.pc = "dt_flush_load"])
    /\ UNCHANGED <<users, likes, follows, media, tweet_media, next_id, clock,
                   boot_time, last_like, last_follow>>

\* main.py 154-169: select the tweet; 404 NotFound when there is none, 403
\* Forbidden when its user_id is not the actor's id.
DeleteTweetSelect(r) ==
    /\ req[r].pc = "dt_select"
    /\ LET rows == TweetRows(req[r].arg) IN
       Step(req, r,
                 IF rows = {} THEN Finished(r, "NotFound", NoOut)
                 ELSE IF (CHOOSE t \in rows : TRUE).user_id # req[r].user
                     THEN Finished(r, "Forbidden", NoOut)
                 ELSE [req[r] EXCEPT !.pc = "dt_flush_load"])
    /\ UNCHANGED <<db, clock, boot_time, last_like, last_follow>>

\* main.py 171-172, the flush of db.delete(tweet), first half: Tweet.likes and
\* Tweet.media have no cascade and no passive_deletes, so the unit of work
\* loads both collections.
DeleteTweetLoad(r) ==
    /\ req[r].pc = "dt_flush_load"
    /\ req' = [req EXCEPT ![r].pc = "dt_commit",
                          ![r].snap.likes = {l.id : l \in LikesOf(req[r].arg)},
                          ![r].snap.media = MediaOf(req[r].arg)]
    /\ UNCHANGED <<db, clock, boot_time, resp, last_like, last_follow>>

\* What the flush writes for the loaded collections, by models.py 64-67:
\* a Like of a relationship without delete cascade is kept and its foreign key
\* set to NULL; the rows of the secondary table are deleted.
NullLikes(ids) ==
    {IF l.id \in ids THEN [l EXCEPT !.tweet_id = NULL] ELSE l : l \in likes}

UnlinkMedia(t) ==
    LET keep == {row \in BagToSet(tweet_media) : row.tweet_id # t} IN
    [row \in keep |-> tweet_media[row]]

\* main.py 171-174, second half: UPDATE likes SET tweet_id = NULL for the loaded
\* likes, DELETE the loaded tweet_media rows, DELETE the tweet, commit.
\* - A loaded like that is gone matches no row: StaleDataError.
\* - A loaded tweet_media row that is gone (the tweet was deleted by another
\*   request meanwhile): StaleDataError where the driver reports row counts,
\*   otherwise the flush goes on.
\* - A Like or tweet_media row of the tweet that was not loaded (committed after
\*   the load) still references it: the DELETE violates the foreign key.
\* - A tweet that is gone matches no row, which the ORM only warns about.
DeleteTweetCommit(r) ==
    /\ req[r].pc = "dt_commit"
    /\ LET t == req[r].arg
           snap == req[r].snap
           stale_like == \E id \in snap.likes : \A l \in likes : l.id # id
           stale_link == snap.media \ MediaOf(t) # {}
           present == TweetRows(t) # {}
           dangling == \/ \E l \in LikesOf(t) : l.id \notin snap.likes
                       \/ MediaOf(t) \ snap.media # {}
       IN
       IF stale_like \/ (present /\ dangling)
         THEN /\ Step(req, r, Finished(r, "InternalError", NoOut))
              /\ UNCHANGED <<tweets, likes, tweet_media, last_like>>
       ELSE IF stale_link
         THEN /\ \E res \in {"InternalError", "ok"} :
                   Step(req, r, Finished(r, res, NoOut))
              /\ UNCHANGED <<tweets, likes, tweet_media, last_like>>
       ELSE IF ~present
         THEN /\ Step(req, r, Finished(r, "ok", NoOut))
              /\ UNCHANGED <<tweets, likes, tweet_media, last_like>>
       ELSE /\ likes' = NullLikes(snap.likes)
            /\ tweet_media' = UnlinkMedia(t)
            /\ tweets' = tweets \ TweetRows(t)
            /\ last_like' = [k \in DOMAIN last_like |->
                                IF k[2] = t THEN "none" ELSE last_like[k]]
            /\ Step(DisarmTweet(r, t), r, Finished(r, "ok", NoOut))
    /\ UNCHANGED <<users, follows, media, next_id, clock, boot_time, last_follow>>

\* ------------------------------------------------------------ get_tweets

UserName(u) == (CHOOSE x \in users : x.id = u).name

\* main.py 120-123: one row per tweet with count(Like.id) over the outer join.
FeedRows ==
    {[id |-> t.id, user_id |-> t.user_id, created_at |-> t.created_at,
      made_at |-> t.made_at, n_likes |-> Cardinality(LikesOf(t.id))] : t \in tweets}

\* main.py 125: order_by(count(Like.id).desc(), Tweet.created_at.desc()); rows
\* equal in both keys come in an order the database chooses.
FeedOrdered(s) ==
    \A i, j \in DOMAIN s :
        i < j => \/ s[i].n_likes > s[j].n_likes
                 \/ /\ s[i].n_likes = s[j].n_likes
                    /\ s[i].created_at >= s[j].created_at

FeedOrders(S) ==
    {s \in [1..Cardinality(S) -> S] :
        /\ \A i, j \in DOMAIN s : i # j => s[i] # s[j]
        /\ FeedOrdered(s)}

\* main.py 120-127: the ranking query.
GetTweetsQuery(r) ==
    /\ req[r].pc = "gt_query"
    /\ \E s \in FeedOrders(FeedRows) :
         req' = [req EXCEPT ![r].pc = "gt_load", ![r].snap.order = s]
    /\ UNCHANGED <<db, clock, boot_time, resp, last_like, last_follow>>

\* main.py 124, 129-145: the selectinload queries for media, author and likes
\* of the listed tweets, then the response.  like.user is not loaded eagerly:
\* reading it finds the User in the session's identity map when it was loaded
\* as some listed tweet's author, and otherwise needs a lazy load, which an
\* AsyncSession refuses outside a greenlet (MissingGreenlet).
GetTweetsLoad(r) ==
    /\ req[r].pc = "gt_load"
    /\ LET order == req[r].snap.order
           authors == {e.user_id : e \in Range(order)}
           lazy == \E e \in Range(order) : \E l \in LikesOf(e.id) : l.user_id \notin authors
           Path(m) == (CHOOSE x \in media : x.id = m).file_path
           Liker(l) == [user_id |-> l.user_id, name |-> UserName(l.user_id)]
           feed == [i \in DOMAIN order |->
                      [id |-> order[i].id,
                       attachments |-> BagOf([m \in MediaOf(order[i].id) |-> Path(m)]),
                       author |-> [id |-> order[i].user_id,
                                   name |-> UserName(order[i].user_id)],
                       likes |-> BagOf([l \in LikesOf(order[i].id) |-> Liker(l)]),
                       n_likes |-> order[i].n_likes,
                       made_at |-> order[i].made_at]]
       IN
       Step(req, r,
                 IF lazy THEN Finished(r, "InternalError", NoOut)
                 ELSE Finished(r, "ok", [NoOut EXCEPT !.feed = feed]))
    /\ UNCHANGED <<db, clock, boot_time, last_like, last_follow>>

\* ----------------------------------------------------------- follow_user

\* Mutant of FollowSelectUser: the self-follow check of main.py 244 is left out.
FollowSelectUserNoSelfCheck(r) ==
    /\ req[r].pc = "fu_select_user"
    /\ Step(req, r,
            IF {u \in users : u.id = req[r].arg} = {}
                THEN Finished(r, "NotFound", NoOut)
            ELSE [req[r] EXCEPT !.pc = "fu_select_follow"])
    /\ UNCHANGED <<db, clock, boot_time, last_like, last_follow>>

\* main.py 244-258: 400 InvalidAction on the actor's own id, then select the
\* target user; 404 NotFound when there is none.
FollowSelectUser(r) ==
    /\ req[r].pc = "fu_select_user"
    /\ Step(req, r,
                 IF req[r].user = req[r].arg
                     THEN Finished(r, "InvalidAction", NoOut)
                 ELSE IF {u \in users : u.id = req[r].arg} = {}
                     THEN Finished(r, "NotFound", NoOut)
                 ELSE [req[r] EXCEPT !.pc = "fu_select_follow"])
    /\ UNCHANGED <<db, clock, boot_time, last_like, last_follow>>

\* main.py 260-271: select the Follow of (actor, target); 400 Duplicate on one
\* row, MultipleResultsFound on two.
FollowSelectFollow(r) ==
    /\ req[r].pc = "fu_select_follow"
    /\ LET n == Cardinality(FollowRows(req[r].user, req[r].arg)) IN
       Step(req, r,
                 IF n > 1 THEN Finished(r, "InternalError", NoOut)
                 ELSE IF n = 1 THEN Finished(r, "Duplicate", NoOut)
                 ELSE [req[r] EXCEPT !.pc = "fu_commit"])
    /\ UNCHANGED <<db, clock, boot_time, last_like, last_follow>>

\* main.py 273-277: insert the Follow and commit.
FollowCommit(r) ==
    /\ req[r].pc = "fu_commit"
    /\ follows' = follows \cup {[id |-> next_id.follows, follower_id |-> req[r].user,
                                 following_id |-> req[r].arg]}
    /\ next_id' = [next_id EXCEPT !.follows = @ + 1]
    /\ last_follow' = [last_follow EXCEPT ![<<req[r].user, req[r].arg>>] = "follow"]
    /\ Step(DisarmPair(r, {"follow_user", "unfollow_user"},
                        req[r].user, req[r].arg, "follow"),
            r, Finished(r, "ok", NoOut))
    /\ UNCHANGED <<users, tweets, likes, media, tweet_media, clock, boot_time,
                   last_like>>

\* --------------------------------------------------------- unfollow_user

\* main.py 286-298: select the Follow of (actor, target); 404 NotFound when
\* there is none, MultipleResultsFound on two rows.
UnfollowSelect(r) ==
    /\ req[r].pc = "uf_select"
    /\ LET rows == FollowRows(req[r].user, req[r].arg) IN
       Step(req, r,
                 IF Cardinality(rows) > 1 THEN Finished(r, "InternalError", NoOut)
                 ELSE IF rows = {} THEN Finished(r, "NotFound", NoOut)
                 ELSE [req[r] EXCEPT !.pc = "uf_commit",
                                     !.snap.likes = {f.id : f \in rows}])
    /\ UNCHANGED <<db, clock, boot_time, last_like, last_follow>>

\* main.py 300-303: DELETE the follow by primary key and commit.  A row that is
\* gone by now matches nothing, which the ORM only warns about.
UnfollowCommit(r) ==
    /\ req[r].pc = "uf_commit"
    /\ follows' = {f \in follows : f.id \notin req[r].snap.likes}
    /\ last_follow' = [last_follow EXCEPT ![<<req[r].user, req[r].arg>>] = "unfollow"]
    /\ Step(DisarmPair(r, {"follow_user", "unfollow_user"},
                        req[r].user, req[r].arg, "unfollow"),
            r, Finished(r, "ok", NoOut))
    /\ UNCHANGED <<users, tweets, likes, media, tweet_media, next_id, clock,
                   boot_time, last_like>>

\* ------------------------------------------------------ get_user_profile

\* main.py 348-364: select the user; 404 NotFound when there is none.
GetUserProfile(r) ==
    /\ req[r].pc = "gp_query"
    /\ Step(req, r,
                 IF {u \in users : u.id = req[r].arg} = {}
                     THEN Finished(r, "NotFound", NoOut)
                 ELSE [req[r] EXCEPT !.pc = "gp_followers"])
    /\ UNCHANGED <<db, clock, boot_time, last_like, last_follow>>

\* Mutant of GetUserProfileFollowers: the relationship is joined on
\* Follow.follower_id instead of Follow.following_id (models.py 37-39).
GetUserProfileFollowersByFollowerId(r) ==
    /\ req[r].pc = "gp_followers"
    /\ LET Follower(f) == [id |-> f.follower_id, name |-> UserName(f.follower_id)] IN
       req' = [req EXCEPT
                 ![r].pc = "gp_following",
                 ![r].snap.followers =
                     BagOf([f \in {g \in follows : g.follower_id = req[r].arg}
                              |-> Follower(f)])]
    /\ UNCHANGED <<db, clock, boot_time, resp, last_like, last_follow>>

\* main.py 352: selectinload(User.followers).joinedload(Follow.follower), a
\* second SELECT: the Follow rows whose following_id is the user, each joined
\* with its follower.
GetUserProfileFollowers(r) ==
    /\ req[r].pc = "gp_followers"
    /\ LET Follower(f) == [id |-> f.follower_id, name |-> UserName(f.follower_id)] IN
       req' = [req EXCEPT
                 ![r].pc = "gp_following",
                 ![r].snap.followers =
                     BagOf([f \in {g \in follows : g.following_id = req[r].arg}
                              |-> Follower(f)])]
    /\ UNCHANGED <<db, clock, boot_time, resp, last_like, last_follow>>

\* main.py 353, 366-379: selectinload(User.following).joinedload(Follow.following),
\* a third SELECT: the Follow rows whose follower_id is the user, each joined
\* with the user it follows; then the response.
GetUserProfileFollowing(r) ==
    /\ req[r].pc = "gp_following"
    /\ LET Following(f) == [id |-> f.following_id, name |-> UserName(f.following_id)] IN
       Step(req, r,
            Finished(r, "ok",
                     [NoOut EXCEPT
                        !.id = req[r].arg,
                        !.followers = req[r].snap.followers,
                        !.following =
                            BagOf([f \in {g \in follows : g.follower_id = req[r].arg}
                                     |-> Following(f)])]))
    /\ UNCHANGED <<db, clock, boot_time, last_like, last_follow>>

\* ------------------------------------------------------------ the process

\* Time passes.
Tick ==
    /\ clock < MaxClock
    /\ clock' = clock + 1
    /\ UNCHANGED <<db, boot_time, req, resp, last_like, last_follow>>

\* The server process is started again: models.py is imported anew
\* (models.py 62 evaluates datetime.now()), the requests in flight are lost,
\* the database stays.
Restart ==
    /\ boot_time # clock
    /\ boot_time' = clock
    /\ req' = [r \in Reqs |-> IdleReq]
    /\ UNCHANGED <<db, clock, resp, last_like, last_follow>>

\* ------------------------------------------------------- specifications

CreateTweet(r) == CreateTweetInsert(r) \/ CreateTweetSelectMedia(r) \/ CreateTweetAttach(r)
GetTweets(r) == GetTweetsQuery(r) \/ GetTweetsLoad(r)
DeleteTweet(r) == DeleteTweetSelect(r) \/ DeleteTweetLoad(r) \/ DeleteTweetCommit(r)
LikeTweet(r) == LikeSelectTweet(r) \/ LikeSelectLike(r) \/ LikeCommit(r)
DeleteLikeTweet(r) == DeleteLikeSelect(r) \/ DeleteLikeCommit(r)
FollowUser(r) == FollowSelectUser(r) \/ FollowSelectFollow(r) \/ FollowCommit(r)
UnfollowUser(r) == UnfollowSelect(r) \/ UnfollowCommit(r)
UserProfile(r) ==
    GetUserProfile(r) \/ GetUserProfileFollowers(r) \/ GetUserProfileFollowing(r)

\* The whole service.
Next ==
    \/ \E r \in Reqs : Receive(r, TweetOps \cup FollowOps, IdLists)
    \/ \E r \in Reqs : CreateTweet(r) \/ UploadMedia(r) \/ GetTweets(r) \/ DeleteTweet(r)
    \/ \E r \in Reqs : LikeTweet(r) \/ DeleteLikeTweet(r)
    \/ \E r \in Reqs : FollowUser(r) \/ UnfollowUser(r) \/ UserProfile(r)
    \/ Tick
    \/ Restart

Spec == Init /\ [][Next]_vars

\* The service under a mix of requests: the clients send only the operations of
\* one group.  Handlers of different groups share no table they write.

\* Follows and profiles: the handlers that touch only users and follows.
NextFollow ==
    \/ \E r \in Reqs : Receive(r, FollowOps, {<<>>})
    \/ \E r \in Reqs : FollowUser(r) \/ UnfollowUser(r) \/ UserProfile(r)

SpecFollow == Init /\ [][NextFollow]_vars

\* Tweets and their likes.
LikeOps == {"create_tweet", "delete_tweet", "like_tweet", "delete_like_tweet"}

NextLike ==
    \/ \E r \in Reqs : Receive(r, LikeOps, {<<>>})
    \/ \E r \in Reqs : CreateTweetInsert(r) \/ DeleteTweet(r)
    \/ \E r \in Reqs : LikeTweet(r) \/ DeleteLikeTweet(r)

SpecLike == Init /\ [][NextLike]_vars

\* Tweets, media and likes: creation with attachments, and deletion.
ContentOps == {"create_tweet", "upload_media", "delete_tweet", "like_tweet"}

NextContent ==
    \/ \E r \in Reqs : Receive(r, ContentOps, IdLists)
    \/ \E r \in Reqs : CreateTweet(r) \/ UploadMedia(r) \/ DeleteTweet(r)
    \/ \E r \in Reqs : LikeTweet(r)

SpecContent == Init /\ [][NextContent]_vars

\* The feed: tweets created over time, liked and listed.
FeedOps == {"create_tweet", "like_tweet", "get_tweets"}

NextFeed ==
    \/ \E r \in Reqs : Receive(r, FeedOps, {<<>>})
    \/ \E r \in Reqs : CreateTweetInsert(r) \/ LikeTweet(r) \/ GetTweets(r)
    \/ Tick
    \/ Restart

SpecFeed == Init /\ [][NextFeed]_vars

\* The operations that write, with the clients taking turns: one request at
\* a time (a client sends the next request after the last response).  The
\* handlers for follows and those for tweets, media and likes share no table
\* they write, so the clients of one run work on one of the two parts: once a
\* row of one part was inserted, no request for the other part is sent.
MutatingOps == {"create_tweet", "upload_media", "delete_tweet", "like_tweet",
                "delete_like_tweet", "follow_user", "unfollow_user"}

SerialOps ==
    {op \in MutatingOps :
        IF op \in FollowOps THEN next_id.tweets = 1 /\ next_id.media = 1
        ELSE next_id.follows = 1}

NextSerial ==
    \/ Receive(1, SerialOps, IdLists)
    \/ CreateTweet(1) \/ UploadMedia(1) \/ DeleteTweet(1)
    \/ LikeTweet(1) \/ DeleteLikeTweet(1)
    \/ FollowUser(1) \/ UnfollowUser(1)

SpecSerial == Init /\ [][NextSerial]_vars

\* ================================================================ claims

\* The request in slot r is answered in this step.
Replies(r) == req[r].pc # "done" /\ req'[r].pc = "done" /\ boot_time' = boot_time
\* The request in slot r executes a statement in this step.
Moves(r) == req[r].pc # "done" /\ req'[r].pc # req[r].pc /\ boot_time' = boot_time

\* ---------------------------------------------------------------- C1

UniqueLikes ==
    \A l1, l2 \in likes :
        (l1.tweet_id # NULL /\ l1.user_id = l2.user_id /\ l1.tweet_id = l2.tweet_id)
            => l1 = l2

\* C1: in every reachable state there is at most one Like row per
\* (user_id, tweet_id), and a like request is answered ok only when no Like
\* row of its pair exists at that moment, so that of concurrent identical
\* requests at most one is answered ok.
C1_OneLikePerPair ==
    [][/\ UniqueLikes'
       /\ \A r \in Reqs :
            (Replies(r) /\ req[r].op = "like_tweet" /\ resp'.result = "ok")
                => LikeRows(req[r].user, req[r].arg) = {}]_vars

\* ---------------------------------------------------------------- C2

UniqueFollows ==
    \A f1, f2 \in follows :
        (f1.follower_id = f2.follower_id /\ f1.following_id = f2.following_id)
            => f1 = f2

\* C2: in every reachable state there is at most one Follow row per
\* (follower_id, following_id), and a follow request is answered ok only when
\* no Follow row of its pair exists at that moment, so that of concurrent
\* identical requests at most one is answered ok.
C2_OneFollowPerPair ==
    [][/\ UniqueFollows'
       /\ \A r \in Reqs :
            (Replies(r) /\ req[r].op = "follow_user" /\ resp'.result = "ok")
                => FollowRows(req[r].user, req[r].arg) = {}]_vars

\* ---------------------------------------------------------------- C3

\* C3: when delete_tweet succeeds on an existing tweet, the next state holds no
\* Tweet row with that id, none of the Like rows that belonged to the tweet, no
\* tweet_media row of the tweet, and the feed query lists the tweet no more.
C3_DeleteRemovesTweetLikesLinks ==
    [][\A r \in Reqs :
         (/\ Replies(r) /\ req[r].op = "delete_tweet" /\ resp'.result = "ok"
          /\ TweetRows(req[r].arg) # {})
         => /\ \A x \in tweets' : x.id # req[r].arg
            /\ \A l \in LikesOf(req[r].arg) : \A x \in likes' : x.id # l.id
            /\ \A row \in BagToSet(tweet_media') : row.tweet_id # req[r].arg
            /\ \A s \in FeedOrders(FeedRows)' :
                 \A i \in DOMAIN s : s[i].id # req[r].arg]_vars

\* ---------------------------------------------------------------- C4

\* C4: delete_tweet on an existing tweet of another author is answered
\* Forbidden, on an absent tweet NotFound, and both leave every table as it
\* was; a tweet leaves the table only in the step in which a delete_tweet request
\* of its author for it is answered ok.
C4_DeleteOnlyByAuthor ==
    [][/\ \A r \in Reqs :
            (Moves(r) /\ req[r].pc = "dt_select")
            => /\ Replies(r) <=> (\A t \in TweetRows(req[r].arg) : t.user_id # req[r].user)
               /\ Replies(r)
                    => /\ resp'.result = (IF TweetRows(req[r].arg) = {}
                                             THEN "NotFound" ELSE "Forbidden")
                       /\ db' = db
       /\ \A t \in tweets \ tweets' :
            \E r \in Reqs :
               /\ Replies(r) /\ resp'.result = "ok"
               /\ req[r].op = "delete_tweet"
               /\ req[r].arg = t.id /\ req[r].user = t.user_id]_vars

\* A delete_tweet of another user's tweet was answered Forbidden, and the tweet
\* is there with a like and an attachment.
C4_Witness ==
    /\ resp.op = "delete_tweet" /\ resp.result = "Forbidden"
    /\ \E t \in tweets :
         /\ t.id = resp.arg /\ t.user_id # resp.user
         /\ LikesOf(t.id) # {} /\ MediaOf(t.id) # {}

\* ---------------------------------------------------------------- C5

\* C5: no Follow row has follower_id = following_id; a follow request naming
\* the actor's own id is answered InvalidAction and gets no further.
C5_NoSelfFollow ==
    /\ \A f \in follows : f.follower_id # f.following_id
    /\ \A r \in Reqs :
         req[r].pc \in {"fu_select_follow", "fu_commit"} => req[r].user # req[r].arg
    /\ (resp.op = "follow_user" /\ resp.user # NULL /\ resp.user = resp.arg)
         => resp.result = "InvalidAction"

\* A follow of oneself was answered InvalidAction, in a state that has follows.
C5_Witness ==
    /\ resp.op = "follow_user" /\ resp.user = resp.arg
    /\ resp.result = "InvalidAction"
    /\ follows # {}

\* ---------------------------------------------------------------- C6

\* C6: a follow request that comes after a follow of the same pair succeeded,
\* with no unfollow of the pair succeeding in between, is answered Duplicate;
\* an unfollow request that comes after an unfollow of the same pair succeeded,
\* with no follow of the pair succeeding in between, is answered NotFound.
C6_RepeatedFollowUnfollow ==
    [][\A r \in Reqs :
         Replies(r)
         => /\ (req[r].op = "follow_user" /\ req[r].prev = "follow")
                  => resp'.result = "Duplicate"
            /\ (req[r].op = "unfollow_user" /\ req[r].prev = "unfollow")
                  => resp'.result = "NotFound"]_vars

\* ---------------------------------------------------------------- C7

\* C7: for an existing tweet, a like request that comes after a like of the
\* same (user, tweet) succeeded, with no unlike succeeding in between, is
\* answered Duplicate; an unlike request that comes after such a like is
\* answered ok; a like request that comes after an unlike succeeded, with no
\* like succeeding in between, is answered ok and leaves exactly one Like row
\* of the pair.
C7_LikeUnlikeRelike ==
    [][\A r \in Reqs :
         Replies(r)
         => /\ (req[r].op = "like_tweet" /\ req[r].prev = "like")
                  => resp'.result = "Duplicate"
            /\ (req[r].op = "delete_like_tweet" /\ req[r].prev = "like")
                  => resp'.result = "ok"
            /\ (req[r].op = "like_tweet" /\ req[r].prev = "unlike")
                  => /\ resp'.result = "ok"
                     /\ Cardinality({l \in likes' : /\ l.user_id = req[r].user
                                                    /\ l.tweet_id = req[r].arg}) = 1]_vars

\* ---------------------------------------------------------------- C8

\* The Media rows whose id is in ids and whose owner is user u.
OwnMedia(ids, u) == {m.id : m \in {x \in media : x.id \in Range(ids) /\ x.user = u}}

NewestFirstAmongEquallyLiked(feed) ==
    \A i, j \in DOMAIN feed :
        i < j => \/ feed[i].n_likes > feed[j].n_likes
                 \/ /\ feed[i].n_likes = feed[j].n_likes
                    /\ feed[i].made_at >= feed[j].made_at

\* C9: every feed get_tweets returns is ordered by like count descending and,
\* among tweets of equal like count, the tweet created later comes first.
C9_FeedOrder ==
    (resp.op = "get_tweets" /\ resp.result = "ok")
        => NewestFirstAmongEquallyLiked(resp.out.feed)

\* ---------------------------------------------------------------- C10

\* C10: every tweet's created_at is the server clock at the moment the tweet
\* was created, so of two tweets created at different times the later one has
\* the strictly later created_at.
C10_CreatedAtIsCreationTime ==
    /\ \A t \in tweets : t.created_at = t.made_at
    /\ \A t1, t2 \in tweets : t1.made_at < t2.made_at => t1.created_at < t2.created_at

\* ---------------------------------------------------------------- C11

\* C11: create_tweet persists the tweet and its attachment rows in one atomic
\* step: a tweet_media row is added only in the step that inserts its tweet,
\* so that no other request sees the tweet without the attachments it ends up
\* with; and a create_tweet that fails while attaching leaves no tweet.
C11_CreateTweetAtomic ==
    [][/\ \A row \in BagToSet(tweet_media') :
            CopiesIn(row, tweet_media') > CopiesIn(row, tweet_media)
                => TweetRows(row.tweet_id) = {}
       /\ \A r \in Reqs :
            (Replies(r) /\ req[r].pc = "ct_attach" /\ resp'.result # "ok")
                => \A x \in tweets' : x.id # req[r].arg]_vars

\* ---------------------------------------------------------------- C12

\* C12: in every reachable state every Like row references an existing tweet
\* and an existing user, every Follow row two existing users, and every
\* tweet_media row an existing tweet and an existing Media row.
C12_ReferentialIntegrity ==
    /\ \A l \in likes :
         /\ \E t \in tweets : t.id = l.tweet_id
         /\ \E u \in users : u.id = l.user_id
    /\ \A f \in follows :
         /\ \E u \in users : u.id = f.follower_id
         /\ \E u \in users : u.id = f.following_id
    /\ \A row \in BagToSet(tweet_media) :
         /\ \E t \in tweets : t.id = row.tweet_id
         /\ \E m \in media : m.id = row.media_id

\* ---------------------------------------------------------------- C13

\* C13: a request for a mutating operation is answered Unauthorized exactly
\* when no user's api_key equals its api-key header; that answer leaves every
\* table and sequence as it was; a request that is let through runs as the
\* user whose api_key is the header; and the step that resolves the key never
\* changes the store.
C13_UnknownKeyUnauthorized ==
    [][\A r \in Reqs :
         (/\ req[r].pc = "done" /\ \A q \in Reqs \ {r} : req'[q] = req[q]
          /\ (req'[r] # req[r] \/ resp' # resp))
         => /\ db' = db
            /\ (req'[r].pc = "done" /\ resp'.op \in MutatingOps)
                 => /\ resp'.result = "Unauthorized"
                    /\ \A u \in users : u.api_key # resp'.key
            /\ (req'[r].pc # "done" /\ req'[r].op \in MutatingOps)
                 => \E u \in users : u.api_key = req'[r].key /\ u.id = req'[r].user]_vars

\* A mutating request whose key differs from a user's key in case only was
\* answered Unauthorized, in a state that has rows.
C13_Witness ==
    /\ resp.op \in MutatingOps /\ resp.result = "Unauthorized" /\ resp.key = "TEST"
    /\ \E u \in users : u.api_key = "test"
    /\ tweets # {} /\ likes # {} /\ media # {}

\* ---------------------------------------------------------------- C14

\* The entry {id, name} of user u in a profile list.
ProfileEntry(u) == [id |-> u.id, name |-> u.name]

\* C14: get_user_profile is answered NotFound exactly when no user has the
\* id; otherwise its followers are exactly the users F with a Follow row
\* (F, id), its following exactly the users G with a Follow row (id, G), each
\* with its id and name and listed once per such row, as the rows are when
\* the list is read; the answer is ok and carries the id.
C14_ProfileLists ==
    [][\A r \in Reqs :
         /\ (Moves(r) /\ req[r].pc = "gp_query")
              => /\ Replies(r) <=> (\A u \in users : u.id # req[r].arg)
                 /\ Replies(r) => resp'.result = "NotFound"
         /\ (Moves(r) /\ req[r].pc = "gp_followers")
              => /\ \A u \in users :
                      CopiesIn(ProfileEntry(u), req'[r].snap.followers)
                          = Cardinality(FollowRows(u.id, req[r].arg))
                 /\ \A e \in BagToSet(req'[r].snap.followers) :
                      \E u \in users : e = ProfileEntry(u)
         /\ (Moves(r) /\ req[r].pc = "gp_following")
              => /\ Replies(r) /\ resp'.result = "ok" /\ resp'.out.id = req[r].arg
                 /\ resp'.out.followers = req[r].snap.followers
                 /\ \A u \in users :
                      CopiesIn(ProfileEntry(u), resp'.out.following)
                          = Cardinality(FollowRows(req[r].arg, u.id))
                 /\ \A e \in BagToSet(resp'.out.following) :
                      \E u \in users : e = ProfileEntry(u)]_vars

\* A profile was answered that lists a follower and follows nobody, after an
\* unfollow of the pair and a new follow.
C14_Witness ==
    /\ resp.op = "get_user_profile" /\ resp.result = "ok"
    /\ \E u \in users :
         /\ u.id # resp.arg
         /\ BagIn(ProfileEntry(u), resp.out.followers)
         /\ last_follow[<<u.id, resp.arg>>] = "follow"
         /\ \E f \in follows : f.id > 1 /\ f.follower_id = u.id /\ f.following_id = resp.arg
    /\ resp.out.following = EmptyBag

\* ---------------------------------------------------------------- C15

\* The outcomes like, unlike, follow and unfollow declare.
DeclaredOutcomes == {"ok", "NotFound", "Duplicate", "InvalidAction"}

\* C15: every like_tweet, delete_like_tweet, follow_user and unfollow_user
\* request of an authenticated user is answered with one of the declared
\* outcomes, never with an internal failure.
C15_DeclaredOutcomesOnly ==
    (/\ resp.op \in {"like_tweet", "delete_like_tweet", "follow_user", "unfollow_user"}
     /\ resp.user # NULL)
        => resp.result \in DeclaredOutcomes

\* ---------------------------------------------------------------- C16

\* C16: follow_user checks in this order: it is answered InvalidAction when
\* the target is the actor; otherwise NotFound when no user has the target
\* id; otherwise Duplicate when a Follow row (actor, target) exists; otherwise
\* it inserts exactly one Follow row (actor, target) and is answered ok.  No
\* check changes the store.
C16_FollowChecksInOrder ==
    [][\A r \in Reqs :
         (Moves(r) /\ req[r].op = "follow_user")
         => /\ req[r].pc = "fu_select_user"
                 => /\ db' = db
                    /\ IF req[r].user = req[r].arg
                          THEN Replies(r) /\ resp'.result = "InvalidAction"
                       ELSE IF \A u \in users : u.id # req[r].arg
                          THEN Replies(r) /\ resp'.result = "NotFound"
                       ELSE req'[r].pc = "fu_select_follow"
            /\ req[r].pc = "fu_select_follow"
                 => /\ db' = db
                    /\ IF FollowRows(req[r].user, req[r].arg) # {}
                          THEN Replies(r) /\ resp'.result = "Duplicate"
                       ELSE req'[r].pc = "fu_commit"
            /\ req[r].pc = "fu_commit"
                 => /\ Replies(r) /\ resp'.result = "ok"
                    /\ follows \subseteq follows'
                    /\ Cardinality(follows') = Cardinality(follows) + 1
                    /\ \A f \in follows' \ follows :
                         f.follower_id = req[r].user /\ f.following_id = req[r].arg]_vars

\* ---------------------------------------------------------------- C17

\* C17: get_tweets lists every existing tweet exactly once, tweets without
\* likes included; the like count a tweet is ranked by is the number of its
\* Like rows; the request is answered with that list, and the likers list of
\* each tweet is as long as its like count.
C17_FeedListsEveryTweetOnce ==
    [][\A r \in Reqs :
         /\ (Moves(r) /\ req[r].pc = "gt_query")
              => LET order == req'[r].snap.order IN
                 /\ Len(order) = Cardinality(tweets)
                 /\ \A t \in tweets :
                      \E i \in DOMAIN order :
                         /\ order[i].id = t.id
                         /\ order[i].n_likes = Cardinality(LikesOf(t.id))
         /\ (Moves(r) /\ req[r].pc = "gt_load")
              => /\ Replies(r) /\ resp'.result = "ok"
                 /\ Len(resp'.out.feed) = Len(req[r].snap.order)
                 /\ \A i \in DOMAIN resp'.out.feed :
                      /\ resp'.out.feed[i].id = req[r].snap.order[i].id
                      /\ BagCardinality(resp'.out.feed[i].likes)
                            = req[r].snap.order[i].n_likes]_vars

\* ---------------------------------------------------------------- C18

\* C18: in every reachable state tweet_media holds at most one row per
\* (tweet_id, media_id), also after create_tweet with a tweet_media_ids list
\* that repeats an id.
C18_OneLinkPerPair ==
    \A row \in BagToSet(tweet_media) : CopiesIn(row, tweet_media) = 1

\* A create_tweet whose tweet_media_ids names the same Media twice was
\* answered ok, and its tweet has that Media attached.
C18_Witness ==
    /\ resp.op = "create_tweet" /\ resp.result = "ok"
    /\ Len(resp.media_ids) = 2 /\ resp.media_ids[1] = resp.media_ids[2]
    /\ BagIn([tweet_id |-> resp.out.id, media_id |-> resp.media_ids[1]], tweet_media)

\* ---------------------------------------------------------------- C19

\* The rows of the store.
Tables == <<users, tweets, likes, follows, media, tweet_media>>

\* The errors an operation returns to its caller.
ErrorResults == {"NotFound", "Duplicate", "Forbidden", "InvalidAction"}

\* C19: an operation that is answered NotFound, Duplicate, Forbidden or
\* InvalidAction leaves every table as it was before the call: the step that
\* answers the error writes nothing, and a request writes only in the step
\* that answers it ok, or, for create_tweet, which returns none of these
\* errors, in its insert.
C19_ErrorLeavesStoreUnchanged ==
    [][\A r \in Reqs :
         /\ (Replies(r) /\ resp'.result \in ErrorResults)
              => Tables' = Tables /\ req[r].op # "create_tweet"
         /\ (Moves(r) /\ Tables' # Tables)
              => \/ Replies(r) /\ resp'.result = "ok"
                 \/ req[r].pc = "ct_insert"]_vars

\* A like of a tweet the user has liked already was answered Duplicate; the
\* tweet has an attachment.
C19_Witness ==
    /\ resp.op = "like_tweet" /\ resp.result = "Duplicate"
    /\ LikeRows(resp.user, resp.arg) # {}
    /\ MediaOf(resp.arg) # {}

\* ---------------------------------------------------------------- C20

\* C20: no step changes a User row or removes a Media row.  A successful
\* delete_like_tweet removes only the rows it selected, the actor's Likes of
\* the tweet, and changes nothing else; a successful unfollow_user removes
\* only Follow rows (actor, target) and changes nothing else; a successful
\* delete_tweet removes no tweet but its own and no tweet_media row but the
\* tweet's, keeps every Like row and changes none of another tweet, and
\* leaves the follows as they were.
C20_RemovesOnlyItsRows ==
    [][/\ users' = users
       /\ media \subseteq media'
       /\ \A r \in Reqs :
            /\ (Moves(r) /\ req[r].pc = "dl_select" /\ ~Replies(r))
                 => req'[r].snap.likes
                      = {l.id : l \in LikeRows(req[r].user, req[r].arg)}
            /\ (Replies(r) /\ req[r].op = "delete_like_tweet" /\ resp'.result = "ok")
                 => /\ likes' \subseteq likes
                    /\ \A l \in likes \ likes' :
                         l.user_id = req[r].user /\ l.id \in req[r].snap.likes
                    /\ <<tweets, follows, tweet_media>>' = <<tweets, follows, tweet_media>>
            /\ (Replies(r) /\ req[r].op = "unfollow_user" /\ resp'.result = "ok")
                 => /\ follows' \subseteq follows
                    /\ \A f \in follows \ follows' :
                         f.follower_id = req[r].user /\ f.following_id = req[r].arg
                    /\ <<tweets, likes, tweet_media>>' = <<tweets, likes, tweet_media>>
            /\ (Replies(r) /\ req[r].op = "delete_tweet" /\ resp'.result = "ok")
                 => /\ tweets' \subseteq tweets
                    /\ \A t \in tweets \ tweets' : t.id = req[r].arg
                    /\ \A l \in likes :
                         IF l.tweet_id = req[r].arg
                           THEN \E x \in likes' : x.id = l.id /\ x.user_id = l.user_id
                         ELSE l \in likes'
                    /\ Cardinality(likes') = Cardinality(likes)
                    /\ \A row \in BagToSet(tweet_media) \cup BagToSet(tweet_media') :
                         row.tweet_id # req[r].arg
                           => CopiesIn(row, tweet_media') = CopiesIn(row, tweet_media)
                    /\ follows' = follows]_vars

\* An unlike was answered ok, and the same user's Like of another tweet is
\* still there.
C20_Witness ==
    /\ resp.op = "delete_like_tweet" /\ resp.result = "ok"
    /\ LikeRows(resp.user, resp.arg) = {}
    /\ \E l \in likes : l.user_id = resp.user /\ l.tweet_id \notin {resp.arg, NULL}
    /\ media # {}

====
